---- MODULE Spec2Model ----
(***************************************************************************)
(* A model of thegogfather.com: the configuration resolver, the auth       *)
(* session hook (useFirebase), the photos subscription effect and the      *)
(* admin write handlers, for each page revision found in the sources.      *)
(*                                                                         *)
(* JavaScript values are encoded as follows.                               *)
(*   - a string is a sequence of one-character strings: "a/b" is           *)
(*     <<"a", "/", "b">> and "" is <<>>;                                   *)
(*   - a value that may be undefined is a sequence of length 0 or 1:       *)
(*     None is undefined, Some(v) is the defined value v;                  *)
(*   - the text of window.__firebase_config is an opaque TLA+ string and   *)
(*     JSON.parse is the table JSONparse over the texts of BlobTexts.      *)
(***************************************************************************)
EXTENDS Integers, Sequences, FiniteSets, TLC

VARIABLES
    variant,    \* which page revision runs (one of Variants)
    env,        \* process.env.NEXT_PUBLIC_FIREBASE_* at build time
    win,        \* the globals a hosted preview injects (__app_id, ...); None is
                \* a global that is not declared
    resolved,   \* <<>> before getFirebaseConfig() ran, <<its result>> after
    \* the backend
    store,      \* the documents of artifacts/{appId}/public/data/photos
    clock,      \* number of documents created so far (ids and timestamps)
    net,        \* write requests sent and not yet processed by the backend,
                \* each numbered by its call
    resp,       \* results of writes on their way back to the page
    \* the identity provider, per browser session
    provider,   \* [user, signin, notify, login, logout]
    \* React state of useFirebase, per browser session
    hook,       \* [ran, auth, db, userId, authReady, error, crashed]
    \* React state of the page component, per browser session
    photos, featuredPhoto, formData, message, loading, authError, loginLoading,
    sub,        \* the subscription effect: [deps, status (photos), others, mounted]
    feeds,      \* Home with five collections: videos, music, art, blogPosts lists
    archive,    \* groupPhotosByDate and the archive render: [photos, grouped, view]
    op,         \* the write handler waiting on the network, if any
    \* history; the handlers read calls alone, to bound the run and to number
    \* their requests
    hist        \* [calls, last, raced, pre, clean, signedOut]

cfgvars == <<variant, env, win, resolved>>
backvars == <<store, clock, net, resp>>
pagevars == <<photos, featuredPhoto, formData, message, loading, authError, loginLoading>>
vars == <<variant, env, win, resolved, store, clock, net, resp, provider, hook,
          photos, featuredPhoto, formData, message, loading, authError, loginLoading, sub, feeds,
          archive, op, hist>>

----------------------------------------------------------------------------
(* Bounds and input alphabets *)

\* longest raw project id / session id drawn by the resolver checks
MaxLen == 2

\* characters the raw ids are drawn from: two that the sanitizer keeps (a
\* letter, the underscore) and one it replaces (the path separator)
InputChars == {"a", "_", "/"}

None == <<>>
Some(v) == <<v>>

\* JavaScript truthiness of a possibly-undefined string
Truthy(o) == o # None /\ o[1] # <<>>

\* a || b on possibly-undefined strings
OrElse(a, b) == IF Truthy(a) THEN a ELSE b

----------------------------------------------------------------------------
(* Page revisions *)

AdminLogin == "admin_login"   \* src/app/admin/page.tsx 1-433 (email/password login)
AdminOpen  == "admin_open"    \* src/app/admin/page.tsx 434-884
HomeFeeds  == "home_feeds"    \* src/app/admin/page.tsx 885-1449 (five collections)
HomePhotos == "home_photos"   \* src/app/page.tsx
HomeFirst  == "home_first"    \* src/unnamed/part_001

AdminVariants == {AdminLogin, AdminOpen}
HomeVariants == {HomeFeeds, HomePhotos, HomeFirst}
Variants == AdminVariants \cup HomeVariants

----------------------------------------------------------------------------
(* sanitizeId and the character class [a-zA-Z0-9_-] *)

Lower == {"a","b","c","d","e","f","g","h","i","j","k","l","m",
          "n","o","p","q","r","s","t","u","v","w","x","y","z"}
Upper == {"A","B","C","D","E","F","G","H","I","J","K","L","M",
          "N","O","P","Q","R","S","T","U","V","W","X","Y","Z"}
Digit == {"0","1","2","3","4","5","6","7","8","9"}

SafeChars == Lower \cup Upper \cup Digit \cup {"_", "-"}

DefaultAppId == <<"d","e","f","a","u","l","t","-","a","p","p","-","i","d">>

HardcodedProjectId == <<"g","o","g","f","a","t","h","e","r","w","e","b">>

\* id.replace(/[^a-zA-Z0-9_-]/g, '-')
ReplaceUnsafe(s) == [i \in 1..Len(s) |-> IF s[i] \in SafeChars THEN s[i] ELSE "-"]

\* sanitizeId(id): id is a possibly-undefined string
sanitizeId(id) == IF ~Truthy(id) THEN DefaultAppId ELSE ReplaceUnsafe(id[1])

----------------------------------------------------------------------------
(* JSON.parse over the config blobs considered *)

BlobFull    == "{\"apiKey\":\"k\",\"projectId\":\"p\"}"
BlobNoKey   == "{\"projectId\":\"p\"}"
BlobCut     == "{\"apiKey\":\"k\""
BlobNull    == "null"
BlobEmpty   == ""

BlobTexts == {BlobFull, BlobNoKey, BlobCut, BlobNull, BlobEmpty}

\* a config object; isNull marks the JavaScript value null
Config(isNull, apiKey, authDomain, projectId, appId) ==
    [isNull |-> isNull, apiKey |-> apiKey, authDomain |-> authDomain,
     projectId |-> projectId, appId |-> appId]

EmptyConfig == Config(FALSE, None, None, None, None)
NullConfig == Config(TRUE, None, None, None, None)

\* a parser that returns an empty object for a text that is no JSON
ParsesAnything(text) ==
    IF text = None THEN [ok |-> TRUE, val |-> EmptyConfig]
    ELSE CASE text[1] = BlobFull ->
                [ok |-> TRUE, val |-> Config(FALSE, Some(<<"k">>), None, Some(<<"p">>), None)]
           [] text[1] = BlobNoKey ->
                [ok |-> TRUE, val |-> Config(FALSE, None, None, Some(<<"p">>), None)]
           [] text[1] = BlobNull ->
                [ok |-> TRUE, val |-> NullConfig]
           [] OTHER -> [ok |-> TRUE, val |-> EmptyConfig]

\* JSON.parse(text): [ok |-> FALSE] stands for the SyntaxError it throws;
\* an undefined text is coerced to "undefined", which is no JSON
JSONparse(text) ==
    IF text = None THEN [ok |-> FALSE, val |-> NullConfig]
    ELSE CASE text[1] = BlobFull ->
                [ok |-> TRUE, val |-> Config(FALSE, Some(<<"k">>), None, Some(<<"p">>), None)]
           [] text[1] = BlobNoKey ->
                [ok |-> TRUE, val |-> Config(FALSE, None, None, Some(<<"p">>), None)]
           [] text[1] = BlobNull ->
                [ok |-> TRUE, val |-> NullConfig]
           [] OTHER -> [ok |-> FALSE, val |-> NullConfig]

----------------------------------------------------------------------------
(* getFirebaseConfig, one definition per revision *)

externalConfig == Config(FALSE, env.apiKey, env.authDomain, env.projectId, env.appId)

isCanvasEnv == win.app_id # None

hasExternalConfig == Truthy(env.projectId) /\ Truthy(env.apiKey)

Resolved(config, token, appId, canvas) ==
    [firebaseConfig |-> config, initialAuthToken |-> token,
     appId |-> appId, isCanvasEnv |-> canvas]

Fallback(appId) == Resolved(EmptyConfig, None, appId, FALSE)

\* the namespace computed in the preview branch, per revision
CanvasAppId ==
    CASE variant \in AdminVariants -> sanitizeId(OrElse(env.projectId, win.app_id))
      [] variant = HomeFeeds ->
            ReplaceUnsafe(OrElse(OrElse(env.projectId, Some(HardcodedProjectId)), win.app_id)[1])
      [] variant = HomePhotos ->
            IF Truthy(env.projectId) THEN env.projectId[1] ELSE ReplaceUnsafe(win.app_id[1])
      [] variant = HomeFirst -> OrElse(env.projectId, win.app_id)[1]

\* the namespace of the environment branch, per revision
ExternalAppId ==
    IF variant \in AdminVariants THEN sanitizeId(env.projectId) ELSE env.projectId[1]

\* the namespace of the fallback branch, per revision
FallbackAppId ==
    IF variant = HomeFeeds THEN OrElse(Some(HardcodedProjectId), Some(DefaultAppId))[1]
    ELSE DefaultAppId

\* the Home revisions read the bare identifier __initial_auth_token inside the
\* try block: when the preview declares no such global the read throws a
\* ReferenceError, which the catch block swallows like a parse error. The admin
\* revisions read the property window.__initial_auth_token, which never throws
TokenReadThrows == variant \in HomeVariants /\ win.initial_auth_token = None

getFirebaseConfig ==
    LET parsed == JSONparse(win.firebase_config)
    IN  IF isCanvasEnv /\ parsed.ok /\ ~TokenReadThrows
        THEN Resolved(parsed.val, win.initial_auth_token, CanvasAppId, TRUE)
        ELSE IF hasExternalConfig
             THEN Resolved(externalConfig, None, ExternalAppId, FALSE)
             ELSE Fallback(FallbackAppId)

----------------------------------------------------------------------------
(* The running pages: sessions, documents, identities *)

\* browser sessions that have the page open at the same time
Sessions == {"s1", "s2"}

\* documents ever created in the photos collection
MaxPhotos == 3

\* the handlers called in one run
MaxCalls == 2

\* one more handler called
Called(name) == [hist EXCEPT !.calls = @ + 1, !.last = name]

Cfg == resolved[1]
AppId == Cfg.appId

\* `artifacts/${appId}/public/data/photos` is determined by appId
collectionPath == AppId

\* identities the provider can report: user.uid stands for the whole account
AnonUser(s) == [kind |-> "anonymous", of |-> s]
TokenUser == [kind |-> "custom", of |-> "preview"]
AdminUser == [kind |-> "password", of |-> "admin"]
IsAnonymous(u) == u.kind = "anonymous"

Urls == {"", "http://x/1.png"}
Captions == {"", "Hi"}

\* error.message of a write the backend refuses
PermissionDenied == "Missing or insufficient permissions."
NotFound == "No document to update"

NoMessage == <<>>

Doc(id, url, caption, isFeatured, timestamp, userId, path) ==
    [id |-> id, url |-> url, caption |-> caption, isFeatured |-> isFeatured,
     timestamp |-> timestamp, userId |-> userId, path |-> path]

DocIds(docs) == {d.id : d \in docs}
FeaturedIds(docs) == {d.id : d \in {e \in docs : e.isFeatured}}
Range(f) == {f[i] : i \in DOMAIN f}

\* query(..., orderBy('timestamp', 'desc')): newest first
RECURSIVE OrderDesc(_)
OrderDesc(docs) ==
    IF docs = {} THEN <<>>
    ELSE LET newest == CHOOSE d \in docs : \A e \in docs : e.timestamp <= d.timestamp
         IN  <<newest>> \o OrderDesc(docs \ {newest})

\* the last featured element of a list, or null
LastFeatured(list) ==
    LET at == {i \in DOMAIN list : list[i].isFeatured}
    IN  IF at = {} THEN None ELSE Some(list[CHOOSE i \in at : \A j \in at : j <= i])

\* Array.prototype.find(p => p.isFeatured) || null
RECURSIVE FindFeatured(_)
FindFeatured(list) ==
    IF list = <<>> THEN None
    ELSE IF Head(list).isFeatured THEN Some(Head(list)) ELSE FindFeatured(Tail(list))

\* Array.prototype.filter(p => p.id !== id), id possibly null
RECURSIVE FilterOut(_, _)
FilterOut(list, id) ==
    IF list = <<>> THEN <<>>
    ELSE IF id # None /\ Head(list).id = id[1] THEN FilterOut(Tail(list), id)
         ELSE <<Head(list)>> \o FilterOut(Tail(list), id)

NoOp == [kind |-> "none", target |-> 0, awaiting |-> {}]

\* the collections the five-collection Home subscribes to besides photos
OtherCollections == {"videos", "music", "art", "blog"}

\* groupPhotosByDate not called
NoArchive == [photos |-> <<>>, grouped |-> None, view |-> None]

\* the page is mounted and no effect of it threw
Alive(s) == ~hook[s].crashed /\ sub[s].mounted

InitPages ==
    /\ net = {}
    /\ resp = {}
    /\ provider = [s \in Sessions |-> [user |-> None, signin |-> "none", notify |-> FALSE,
                                       login |-> "none",
                                       logout |-> [pending |-> 0, resolved |-> 0]]]
    /\ hook = [s \in Sessions |->
                 [ran |-> FALSE, auth |-> FALSE, db |-> FALSE, userId |-> None,
                  authReady |-> FALSE, error |-> None, crashed |-> FALSE]]
    /\ photos = [s \in Sessions |-> <<>>]
    /\ featuredPhoto = [s \in Sessions |-> None]
    /\ formData = [s \in Sessions |-> [url |-> "", caption |-> ""]]
    /\ message = [s \in Sessions |-> NoMessage]
    /\ loading = [s \in Sessions |-> variant \in HomeVariants]
    /\ authError = [s \in Sessions |-> None]
    /\ loginLoading = [s \in Sessions |-> FALSE]
    /\ sub = [s \in Sessions |->
                [deps |-> None, status |-> "none",
                 others |-> [c \in OtherCollections |-> "none"], mounted |-> TRUE]]
    /\ feeds = [s \in Sessions |-> [c \in OtherCollections |-> <<>>]]
    /\ op = [s \in Sessions |-> NoOp]
    /\ hist = [calls |-> 0,
               last |-> "none",
               raced |-> FALSE,
               pre |-> [s \in Sessions |-> {}],
               clean |-> [s \in Sessions |-> TRUE],
               signedOut |-> [s \in Sessions |-> FALSE]]

----------------------------------------------------------------------------
(* useFirebase: the initialization effect, sign-in and the auth listener *)

ConfigMissingMessage ==
    CASE variant = HomeFeeds ->
            <<"ERROR: Firebase config missing. Check Vercel Environment Variables.">>
      [] variant = HomeFirst ->
            <<"ERROR: Firebase config missing. Ensure Vercel environment variables are set.">>
      [] OTHER ->
            <<"ERROR: Firebase configuration keys are missing. Please ensure Vercel environment variables are set.">>

\* the revisions that read firebaseConfig.apiKey without testing firebaseConfig
ReadsApiKeyOfNull == Cfg.firebaseConfig.isNull /\ variant \in {HomeFeeds, HomePhotos}

ConfigInvalid == Cfg.firebaseConfig.isNull \/ ~Truthy(Cfg.firebaseConfig.apiKey)

\* the diagnostic block of the open admin page, rendered once authReady is set
\* and error is set or nobody is signed in, reads firebaseConfig.authDomain
\* without testing firebaseConfig: with a null config the render throws a
\* TypeError and React unmounts the page
RendersAuthDomainOfNull == Cfg.firebaseConfig.isNull /\ variant = AdminOpen

\* the effect of useFirebase; initOk is whether initializeApp/getFirestore/
\* getAuth return rather than throw
InitEffect(s, initOk) ==
    /\ ~hook[s].ran
    /\ Alive(s)
    /\ IF ReadsApiKeyOfNull
       THEN /\ hook' = [hook EXCEPT ![s].ran = TRUE, ![s].crashed = TRUE]
            /\ UNCHANGED provider
       ELSE IF ConfigInvalid
       THEN /\ hook' = [hook EXCEPT ![s].ran = TRUE,
                                    ![s].error = Some(ConfigMissingMessage),
                                    ![s].authReady = TRUE,
                                    ![s].crashed = RendersAuthDomainOfNull]
            /\ UNCHANGED provider
       ELSE IF initOk
       THEN /\ hook' = [hook EXCEPT ![s].ran = TRUE, ![s].auth = TRUE]
            /\ provider' = [provider EXCEPT
                              ![s].signin = IF Truthy(Cfg.initialAuthToken)
                                            THEN "token" ELSE "anonymous",
                              ![s].notify = TRUE]
       ELSE /\ hook' = [hook EXCEPT ![s].ran = TRUE,
                                    ![s].error = Some(<<"Initialization error: ", "init failed">>),
                                    ![s].authReady = TRUE]
            /\ UNCHANGED provider
    /\ UNCHANGED <<cfgvars, feeds, archive, backvars, pagevars, sub, op, hist>>

\* what the catch block of initializeAuth stores in error, per revision
SignInFailureError(old, code) ==
    CASE variant \in {AdminOpen, HomePhotos} -> Some(<<"Authentication failed: ", code>>)
      [] variant = HomeFirst -> Some(<<"Authentication failed. Check setup.">>)
      [] OTHER -> old

\* signInWithCustomToken / signInAnonymously settles
SignInSettled(s, ok) ==
    /\ provider[s].signin # "none"
    /\ Alive(s)
    /\ IF ok
       THEN /\ provider' = [provider EXCEPT
                              ![s].user = IF provider[s].signin = "token"
                                          THEN Some(TokenUser) ELSE Some(AnonUser(s)),
                              ![s].signin = "none",
                              ![s].notify = TRUE]
            /\ UNCHANGED hook
       ELSE /\ provider' = [provider EXCEPT ![s].signin = "none"]
            /\ hook' = [hook EXCEPT ![s].error =
                          SignInFailureError(hook[s].error, "auth/operation-not-allowed")]
    /\ UNCHANGED <<cfgvars, feeds, archive, backvars, pagevars, sub, op, hist>>

\* a listener that keeps the user it saw first: setUserId is skipped when
\* the provider reports no user
AuthStateChangedKeepsUser(s) ==
    /\ provider[s].notify
    /\ hook[s].auth
    /\ Alive(s)
    /\ provider' = [provider EXCEPT ![s].notify = FALSE]
    /\ hook' = [hook EXCEPT ![s].userId = IF provider[s].user # None
                                          THEN Some(provider[s].user[1]) ELSE @,
                            ![s].db = TRUE,
                            ![s].authReady = TRUE]
    /\ hist' = [hist EXCEPT !.signedOut[s] =
                   provider[s].user = None /\ (@ \/ hook[s].userId # None)]
    /\ UNCHANGED <<cfgvars, feeds, archive, backvars, pagevars, sub, op>>

\* the onAuthStateChanged callback; hist.signedOut records that it delivered
\* a sign-out: no user, to a page that had one
AuthStateChanged(s) ==
    /\ provider[s].notify
    /\ hook[s].auth
    /\ Alive(s)
    /\ provider' = [provider EXCEPT ![s].notify = FALSE]
    /\ hook' = [hook EXCEPT ![s].userId = IF provider[s].user # None
                                          THEN Some(provider[s].user[1]) ELSE None,
                            ![s].db = TRUE,
                            ![s].authReady = TRUE]
    /\ hist' = [hist EXCEPT !.signedOut[s] =
                   provider[s].user = None /\ (@ \/ hook[s].userId # None)]
    /\ UNCHANGED <<cfgvars, feeds, archive, backvars, pagevars, sub, op>>

LoginOutcomes == {"ok", "auth/operation-not-allowed", "auth/invalid-credential",
                  "auth/too-many-requests", "auth/network-request-failed"}

\* error.message of a FirebaseError of the auth module
ErrorMessage(code) == <<"Firebase: Error (", code, ").">>

LoginErrorMessage(code) ==
    CASE code = "auth/operation-not-allowed" ->
            <<"CONFIGURATION ERROR: Email/Password provider is disabled. Enable it in Firebase Console -> Authentication -> Sign-in method.">>
      [] code \in {"auth/invalid-credential", "auth/wrong-password", "auth/user-not-found"} ->
            <<"Invalid email or password.">>
      [] code = "auth/too-many-requests" ->
            <<"Too many failed attempts. Please try again later.">>
      [] OTHER -> <<"Login failed: ">> \o ErrorMessage(code)

\* error.message of the TypeError signInWithEmailAndPassword throws when it
\* is handed a null auth object
NullAuthMessage == "Cannot read properties of null"

\* LoginForm.handleLogin up to its await. The form is rendered while authReady
\* && !userId and its submit button with disabled={loginLoading}. Without an
\* auth object signInWithEmailAndPassword throws before the await and the
\* catch and finally blocks run in the same step
handleLogin(s) ==
    /\ variant = AdminLogin
    /\ Alive(s)
    /\ hook[s].authReady /\ hook[s].userId = None
    /\ ~loginLoading[s]
    /\ hist.calls < MaxCalls
    /\ hist' = Called("login")
    /\ IF ~hook[s].auth
       THEN /\ authError' = [authError EXCEPT ![s] = Some(<<"Login failed: ", NullAuthMessage>>)]
            /\ UNCHANGED <<provider, loginLoading>>
       ELSE /\ authError' = [authError EXCEPT ![s] = None]
            /\ loginLoading' = [loginLoading EXCEPT ![s] = TRUE]
            /\ provider' = [provider EXCEPT ![s].login = "pending"]
    /\ UNCHANGED <<cfgvars, feeds, archive, backvars, hook, photos, featuredPhoto, formData, message,
                   loading, sub, op>>

\* the provider answers signInWithEmailAndPassword. A rejection runs the catch
\* and finally blocks of handleLogin; an acceptance changes the current user,
\* which the auth listener and the continuation of the await then both learn
LoginSettled(s, outcome) ==
    /\ provider[s].login = "pending"
    /\ IF outcome = "ok"
       THEN /\ provider' = [provider EXCEPT ![s].user = Some(AdminUser),
                                            ![s].notify = TRUE,
                                            ![s].login = "resolved"]
            /\ UNCHANGED <<authError, loginLoading>>
       ELSE /\ provider' = [provider EXCEPT ![s].login = "none"]
            /\ authError' = [authError EXCEPT ![s] = IF Alive(s)
                                                     THEN Some(LoginErrorMessage(outcome)) ELSE @]
            /\ loginLoading' = [loginLoading EXCEPT ![s] = IF Alive(s) THEN FALSE ELSE @]
    /\ UNCHANGED <<cfgvars, feeds, archive, backvars, hook, photos, featuredPhoto, formData, message,
                   loading, sub, op, hist>>

\* the continuation of the await in handleLogin after an acceptance:
\* setUserId(userCredential.user.uid), then finally { setLoginLoading(false) }
LoginResumed(s) ==
    /\ provider[s].login = "resolved"
    /\ provider' = [provider EXCEPT ![s].login = "none"]
    /\ hook' = [hook EXCEPT ![s].userId = IF Alive(s) THEN Some(AdminUser) ELSE @]
    /\ loginLoading' = [loginLoading EXCEPT ![s] = IF Alive(s) THEN FALSE ELSE @]
    /\ hist' = [hist EXCEPT !.signedOut[s] = IF Alive(s) THEN FALSE ELSE @]
    /\ UNCHANGED <<cfgvars, feeds, archive, backvars, photos, featuredPhoto, formData, message,
                   loading, authError, sub, op>>

\* AdminPage.handleLogout up to its await; the Logout button is rendered with
\* the panel, while authReady && userId, and is never disabled: every click
\* calls signOut(auth), whether or not an earlier call is still pending.
\* provider[s].logout counts the signOut promises that are pending and those
\* that have resolved and whose continuation is yet to run
handleLogout(s) ==
    /\ variant = AdminLogin
    /\ Alive(s)
    /\ hook[s].authReady /\ hook[s].userId # None
    /\ hist.calls < MaxCalls
    /\ hist' = Called("logout")
    /\ provider' = [provider EXCEPT ![s].logout.pending = IF hook[s].auth THEN @ + 1 ELSE @]
    /\ UNCHANGED <<cfgvars, feeds, archive, backvars, hook, pagevars, sub, op>>

\* the provider answers one signOut(auth). A rejection is caught nowhere: the
\* handler ends without a message. An acceptance clears the current user
SignOutSettled(s, ok) ==
    /\ provider[s].logout.pending > 0
    /\ provider' = IF ok
                   THEN [provider EXCEPT ![s].user = None,
                                         ![s].notify = provider[s].notify \/ provider[s].user # None,
                                         ![s].logout.pending = @ - 1,
                                         ![s].logout.resolved = @ + 1]
                   ELSE [provider EXCEPT ![s].logout.pending = @ - 1]
    /\ UNCHANGED <<cfgvars, feeds, archive, backvars, hook, pagevars, sub, op, hist>>

\* the continuation of one await in handleLogout: setMessage('Logged out.')
LogoutResumed(s) ==
    /\ provider[s].logout.resolved > 0
    /\ provider' = [provider EXCEPT ![s].logout.resolved = @ - 1]
    /\ message' = [message EXCEPT ![s] = IF Alive(s) THEN <<"Logged out.">> ELSE @]
    /\ UNCHANGED <<cfgvars, feeds, archive, backvars, hook, photos, featuredPhoto, formData,
                   loading, authError, loginLoading, sub, op, hist>>

----------------------------------------------------------------------------
(* The photos subscription effect and its callbacks *)

\* collection(db, `artifacts/${appId}/public/data/photos`) returns a reference
\* only for a path of an odd number of non-empty segments
RECURSIVE Segments(_)
Segments(str) ==
    IF \A i \in 1..Len(str) : str[i] # "/" THEN <<str>>
    ELSE LET cut == CHOOSE i \in 1..Len(str) :
                        str[i] = "/" /\ \A j \in 1..(i - 1) : str[j] # "/"
         IN  <<SubSeq(str, 1, cut - 1)>> \o Segments(SubSeq(str, cut + 1, Len(str)))

CollectionPathValid ==
    LET segs == Segments(AppId)
    IN  (\A i \in 1..Len(segs) : segs[i] # <<>>) /\ (4 + Len(segs)) % 2 = 1

\* collectionPath.includes('//') || collectionPath.includes('..')
PathLooksBroken ==
    \/ AppId = <<>>
    \/ \E i \in 1..Len(AppId) : AppId[i] = "/" /\ (i = 1 \/ i = Len(AppId))
    \/ \E i \in 1..(Len(AppId) - 1) :
          (AppId[i] = "/" /\ AppId[i + 1] = "/") \/ (AppId[i] = "." /\ AppId[i + 1] = ".")

AppIdNotConfigured == <<"App ID not configured. Check Vercel environment variables.">>

\* what one run of the effect does: "wait" returns without a subscription,
\* "refuse" reports a configuration error, "throw" is an uncaught exception
\* (collection() on a missing db or an invalid path; setError not in scope),
\* "listen" calls onSnapshot
SubscriptionDecision(s) ==
    LET db == hook[s].db
        authReady == hook[s].authReady
        open == IF db /\ CollectionPathValid THEN "listen" ELSE "throw"
    IN  CASE variant \in AdminVariants ->
                IF ~db \/ ~authReady \/ AppId = DefaultAppId THEN "wait" ELSE open
          [] variant = HomeFirst ->
                IF ~authReady THEN "wait"
                ELSE IF ~db /\ AppId = DefaultAppId THEN "throw"
                ELSE open
          [] variant = HomePhotos ->
                IF ~authReady THEN "wait"
                ELSE IF ~db /\ ~Truthy(Cfg.firebaseConfig.projectId) THEN "refuse"
                ELSE IF PathLooksBroken THEN "broken"
                ELSE open
          [] variant = HomeFeeds ->
                IF ~authReady THEN "wait"
                ELSE IF ~db /\ (AppId = <<>> \/ AppId = DefaultAppId
                                \/ ~Truthy(Cfg.firebaseConfig.apiKey)) THEN "refuse"
                ELSE open

\* the effect runs after a render in which one of its dependencies changed
SubscriptionEffect(s) ==
    /\ Alive(s)
    /\ sub[s].deps # Some(<<hook[s].db, hook[s].authReady>>)
    /\ LET decision == SubscriptionDecision(s)
       IN  /\ sub' = [sub EXCEPT ![s].deps = Some(<<hook[s].db, hook[s].authReady>>),
                                 ![s].status = IF decision = "listen" THEN "active" ELSE "none",
                                 ![s].others = [c \in OtherCollections |->
                                                  IF decision = "listen" /\ variant = HomeFeeds
                                                  THEN "active" ELSE "none"]]
           /\ hook' = [hook EXCEPT
                         ![s].crashed = (decision = "throw"),
                         ![s].error = CASE decision = "refuse" -> Some(AppIdNotConfigured)
                                        [] decision = "broken" ->
                                             Some(<<"Invalid Path Construction. Check Project ID for illegal characters.">>)
                                        [] OTHER -> @]
           /\ loading' = [loading EXCEPT ![s] = IF decision \in {"refuse", "broken"}
                                                THEN FALSE ELSE @]
    /\ UNCHANGED <<cfgvars, feeds, archive, backvars, provider, photos, featuredPhoto, formData, message,
                   authError, loginLoading, op, hist>>

\* a snapshot that holds the featured documents only
FeaturedSnapshot == OrderDesc({d \in store : d.isFeatured})

\* the documents a snapshot of the photos query holds
SnapshotDocs == OrderDesc(store)

\* the onSnapshot success callback
Snapshot(s) ==
    /\ sub[s].status = "active"
    /\ Alive(s)
    /\ LET fetchedPhotos == SnapshotDocs
           featured == FindFeatured(fetchedPhotos)
       IN  IF variant \in AdminVariants
           THEN /\ photos' = [photos EXCEPT ![s] = fetchedPhotos]
                /\ UNCHANGED <<featuredPhoto, loading, hook>>
           ELSE /\ featuredPhoto' = [featuredPhoto EXCEPT ![s] = featured]
                /\ photos' = [photos EXCEPT ![s] =
                                FilterOut(fetchedPhotos,
                                          IF featured # None THEN Some(featured[1].id) ELSE None)]
                /\ loading' = [loading EXCEPT ![s] = FALSE]
                /\ hook' = [hook EXCEPT ![s].error = IF variant = HomePhotos THEN None ELSE @]
    /\ UNCHANGED <<cfgvars, feeds, archive, backvars, provider, formData, message, authError, loginLoading, sub, op, hist>>

FetchErrorMessage ==
    IF variant = HomeFeeds THEN <<"Database permission denied. Update rules.">>
    ELSE <<"Error fetching photos. Please check that Firestore Security Rules allow public read access.">>

\* the onSnapshot error callback; the listener gets no further snapshot.
\* In src/unnamed/part_001 setError is not in scope: the callback throws first
SnapshotError(s) ==
    /\ sub[s].status = "active"
    /\ Alive(s)
    /\ sub' = [sub EXCEPT ![s].status = "errored"]
    /\ IF variant \in {HomePhotos, HomeFeeds}
       THEN /\ hook' = [hook EXCEPT ![s].error = Some(FetchErrorMessage)]
            /\ loading' = [loading EXCEPT ![s] = FALSE]
       ELSE UNCHANGED <<hook, loading>>
    /\ UNCHANGED <<cfgvars, feeds, archive, backvars, provider, photos, featuredPhoto, formData, message,
                   authError, loginLoading, op, hist>>

\* the documents of the four other collections; no page writes them
FeedDocs(c) == <<[id |-> c, timestamp |-> 1]>>

\* the onSnapshot success callback of subscribeToCollection(colName, setState)
\* for videos, music, art and blog
FeedSnapshot(s, c) ==
    /\ variant = HomeFeeds
    /\ Alive(s)
    /\ sub[s].others[c] = "active"
    /\ feeds' = [feeds EXCEPT ![s][c] = FeedDocs(c)]
    /\ loading' = [loading EXCEPT ![s] = FALSE]
    /\ UNCHANGED <<cfgvars, archive, backvars, provider, hook, photos, featuredPhoto,
                   formData, message, authError, loginLoading, sub, op, hist>>

\* an error callback that ends every listener of the page
FeedErrorStopsAll(s, c) ==
    /\ variant = HomeFeeds
    /\ Alive(s)
    /\ sub[s].others[c] = "active"
    /\ sub' = [sub EXCEPT ![s].status = "errored",
                          ![s].others = [d \in OtherCollections |-> "errored"]]
    /\ loading' = [loading EXCEPT ![s] = FALSE]
    /\ UNCHANGED <<cfgvars, feeds, archive, backvars, provider, hook, photos, featuredPhoto,
                   formData, message, authError, loginLoading, op, hist>>

\* its error callback: console.error and setLoading(false); setError is
\* called for photos alone
FeedError(s, c) ==
    /\ variant = HomeFeeds
    /\ Alive(s)
    /\ sub[s].others[c] = "active"
    /\ sub' = [sub EXCEPT ![s].others[c] = "errored"]
    /\ loading' = [loading EXCEPT ![s] = FALSE]
    /\ UNCHANGED <<cfgvars, feeds, archive, backvars, provider, hook, photos, featuredPhoto,
                   formData, message, authError, loginLoading, op, hist>>

\* a cleanup that calls unsubPhotos alone
UnmountPhotosOnly(s) ==
    /\ Alive(s)
    /\ sub' = [sub EXCEPT ![s].status = "none", ![s].mounted = FALSE]
    /\ UNCHANGED <<cfgvars, feeds, archive, backvars, provider, hook, pagevars, op, hist>>

\* the view unmounts: React runs the cleanup the subscription effect returned
\* (Home and AdminPage alike), which calls every unsubscribe handle; state
\* setters called afterwards change nothing
Unmount(s) ==
    /\ Alive(s)
    /\ sub' = [sub EXCEPT ![s].status = "none",
                          ![s].others = [c \in OtherCollections |-> "none"],
                          ![s].mounted = FALSE]
    /\ UNCHANGED <<cfgvars, feeds, archive, backvars, provider, hook, pagevars, op, hist>>

----------------------------------------------------------------------------
(* AdminPage: the form and the three write handlers *)

\* const isAuthorized = authReady && !!userId
isAuthorized(s) == hook[s].authReady /\ hook[s].userId # None

NotAuthorizedMessage ==
    IF variant = AdminLogin THEN <<"Error: Not authorized.">>
    ELSE <<"Error: Not authorized. Write operations require a non-anonymous sign-in.">>

RequiredMessage == <<"Error: Photo URL and Caption are required.">>

\* a write request on its way to the backend; call is the number of the
\* handler call that sent it, so that the requests of two calls stay two
\* requests when they ask for the same change; live is FALSE once the handler
\* that sent it has stopped waiting for it
Write(s, call, kind, id, doc) ==
    [from |-> s, call |-> call, kind |-> kind, id |-> id, doc |-> doc, live |-> TRUE]

\* the form and the list are on screen: the login revision returns
\* "Initializing..." until authReady and the LoginForm while userId is null;
\* the open revision returns the panel as soon as authReady is set
PanelRendered(s) ==
    /\ hook[s].authReady
    /\ variant = AdminLogin => hook[s].userId # None

\* the disabled attribute of the inputs and buttons of the panel:
\* disabled={loading} in the login revision, disabled={!isAuthorized ||
\* loading} in the open revision
ControlsDisabled(s) ==
    IF variant = AdminLogin THEN loading[s] ELSE ~isAuthorized(s) \/ loading[s]

\* a handler of the mounted AdminPage is started by a control that is on
\* screen and not disabled
Idle(s) == variant \in AdminVariants /\ Alive(s) /\ PanelRendered(s) /\ ~ControlsDisabled(s)

\* the photos of the list that carry the Feature button: {!photo.isFeatured && ...}
FeatureButtons(s) == {p.id : p \in {q \in Range(photos[s]) : ~q.isFeatured}}

handleChange(s, name, value) ==
    /\ Idle(s)
    /\ formData' = [formData EXCEPT ![s][name] = value]
    /\ UNCHANGED <<cfgvars, feeds, archive, backvars, provider, hook, photos, featuredPhoto, message,
                   loading, authError, loginLoading, sub, op, hist>>

\* the required-field test, present in one revision only
MissingField(s) == variant = AdminOpen /\ (formData[s].url = "" \/ formData[s].caption = "")

\* a document created as the photo of the day
NewFeaturedPhoto(s) ==
    Doc(clock + 1, formData[s].url, formData[s].caption, TRUE, clock + 1,
        hook[s].userId[1], collectionPath)

\* the document handleAddPhoto passes to addDoc
NewPhoto(s) ==
    Doc(clock + 1, formData[s].url, formData[s].caption, FALSE, clock + 1,
        hook[s].userId[1], collectionPath)

handleAddPhoto(s) ==
    /\ Idle(s)
    /\ hist.calls < MaxCalls
    /\ hist' = Called("add")
    /\ IF ~isAuthorized(s)
       THEN /\ message' = [message EXCEPT ![s] = NotAuthorizedMessage]
            /\ UNCHANGED <<clock, net, loading, op>>
       ELSE IF MissingField(s)
       THEN /\ message' = [message EXCEPT ![s] = RequiredMessage]
            /\ UNCHANGED <<clock, net, loading, op>>
       ELSE /\ clock < MaxPhotos
            /\ hook[s].db
            /\ loading' = [loading EXCEPT ![s] = TRUE]
            /\ message' = [message EXCEPT ![s] = NoMessage]
            /\ clock' = clock + 1
            /\ net' = net \cup {Write(s, hist.calls + 1, "add", clock + 1, Some(NewPhoto(s)))}
            /\ op' = [op EXCEPT ![s] = [kind |-> "add", target |-> clock + 1, awaiting |-> {}]]
    /\ UNCHANGED <<cfgvars, feeds, archive, store, resp, provider, hook, photos, featuredPhoto, formData,
                   authError, loginLoading, sub>>

\* a first phase that un-features nothing
NoBatchUpdates(s) == {}

\* photos.filter(p => p.isFeatured): the ids the first phase un-features
batchUpdates(s) == FeaturedIds(Range(photos[s]))

\* a setFeatured of another session whose writes the backend has yet to apply
FeatureUnderWay(s) ==
    \E t \in Sessions \ {s} :
        /\ op[t].kind = "feature"
        /\ \/ op[t].awaiting # {}
           \/ \E w \in net : w.from = t /\ w.live /\ w.kind = "feature"

\* a handler that sends the writes of both phases together
handleFeatureAtOnce(s, id) ==
    /\ Idle(s)
    /\ hist.calls < MaxCalls
    /\ id \in FeatureButtons(s)
    /\ IF ~isAuthorized(s)
       THEN /\ message' = [message EXCEPT ![s] = IF variant = AdminOpen
                                                 THEN NotAuthorizedMessage ELSE @]
            /\ hist' = Called("feature")
            /\ UNCHANGED <<net, loading, op>>
       ELSE /\ hook[s].db
            /\ loading' = [loading EXCEPT ![s] = TRUE]
            /\ message' = [message EXCEPT ![s] = IF variant = AdminOpen THEN NoMessage ELSE @]
            /\ net' = net \cup {Write(s, hist.calls + 1, "feature", id, None)}
                        \cup {Write(s, hist.calls + 1, "unfeature", p, None) : p \in batchUpdates(s)}
            /\ op' = [op EXCEPT ![s] = [kind |-> "feature", target |-> id,
                                        awaiting |-> batchUpdates(s)]]
            /\ hist' = [calls |-> hist.calls + 1,
                        last |-> "feature",
                        raced |-> \/ hist.raced
                                  \/ ~(FeaturedIds(store) \subseteq FeaturedIds(Range(photos[s])))
                                  \/ FeatureUnderWay(s),
                        pre |-> [hist.pre EXCEPT ![s] = FeaturedIds(store)],
                        clean |-> [hist.clean EXCEPT ![s] = TRUE],
                        signedOut |-> hist.signedOut]
    /\ UNCHANGED <<cfgvars, feeds, archive, store, clock, resp, provider, hook, photos, featuredPhoto,
                   formData, authError, loginLoading, sub>>

handleFeaturePhoto(s, id) ==
    /\ Idle(s)
    /\ hist.calls < MaxCalls
    /\ id \in FeatureButtons(s)
    /\ IF ~isAuthorized(s)
       THEN /\ message' = [message EXCEPT ![s] = IF variant = AdminOpen
                                                 THEN NotAuthorizedMessage ELSE @]
            /\ hist' = Called("feature")
            /\ UNCHANGED <<net, loading, op>>
       ELSE /\ hook[s].db
            /\ loading' = [loading EXCEPT ![s] = TRUE]
            /\ message' = [message EXCEPT ![s] = IF variant = AdminOpen THEN NoMessage ELSE @]
            /\ net' = net \cup
                        IF batchUpdates(s) = {}
                        THEN {Write(s, hist.calls + 1, "feature", id, None)}
                        ELSE {Write(s, hist.calls + 1, "unfeature", p, None) : p \in batchUpdates(s)}
            /\ op' = [op EXCEPT ![s] = [kind |-> "feature", target |-> id,
                                        awaiting |-> batchUpdates(s)]]
            /\ hist' = [calls |-> hist.calls + 1,
                        last |-> "feature",
                        raced |-> \/ hist.raced
                                  \/ ~(FeaturedIds(store) \subseteq FeaturedIds(Range(photos[s])))
                                  \/ FeatureUnderWay(s),
                        pre |-> [hist.pre EXCEPT ![s] = FeaturedIds(store)],
                        clean |-> [hist.clean EXCEPT ![s] = TRUE],
                        signedOut |-> hist.signedOut]
    /\ UNCHANGED <<cfgvars, feeds, archive, store, clock, resp, provider, hook, photos, featuredPhoto,
                   formData, authError, loginLoading, sub>>

handleDeletePhoto(s, id) ==
    /\ Idle(s)
    /\ hist.calls < MaxCalls
    /\ hist' = Called("delete")
    /\ id \in DocIds(Range(photos[s]))
    /\ IF ~isAuthorized(s)
       THEN /\ message' = [message EXCEPT ![s] = IF variant = AdminOpen
                                                 THEN NotAuthorizedMessage ELSE @]
            /\ UNCHANGED <<net, loading, op>>
       ELSE /\ hook[s].db
            /\ loading' = [loading EXCEPT ![s] = TRUE]
            /\ message' = [message EXCEPT ![s] = IF variant = AdminOpen THEN NoMessage ELSE @]
            /\ net' = net \cup {Write(s, hist.calls + 1, "delete", id, None)}
            /\ op' = [op EXCEPT ![s] = [kind |-> "delete", target |-> id, awaiting |-> {}]]
    /\ UNCHANGED <<cfgvars, feeds, archive, store, clock, resp, provider, hook, photos, featuredPhoto,
                   formData, authError, loginLoading, sub>>

----------------------------------------------------------------------------
(* The backend applies one write; the page resumes after its await *)

\* an update that rewrites the caption along with the flag
SetFeaturedAndCaption(docs, id, value) ==
    {IF d.id = id THEN [d EXCEPT !.isFeatured = value, !.caption = ""] ELSE d : d \in docs}

\* updateDoc(doc(db, collectionPath, id), { isFeatured: value })
SetFeatured(docs, id, value) ==
    {IF d.id = id THEN [d EXCEPT !.isFeatured = value] ELSE d : d \in docs}

\* the result of write w; allowed is the verdict of the security rules
WriteError(w, allowed) ==
    IF ~allowed THEN Some(PermissionDenied)
    ELSE IF w.kind \in {"feature", "unfeature"} /\ w.id \notin DocIds(store)
         THEN Some(NotFound)
         ELSE None

\* a backend whose delete empties the collection
AppliedWipe(w) ==
    CASE w.kind = "add" -> store \cup {w.doc[1]}
      [] w.kind = "unfeature" -> SetFeatured(store, w.id, FALSE)
      [] w.kind = "feature" -> SetFeatured(store, w.id, TRUE)
      [] w.kind = "delete" -> {}

\* the collection after write w
Applied(w) ==
    CASE w.kind = "add" -> store \cup {w.doc[1]}
      [] w.kind = "unfeature" -> SetFeatured(store, w.id, FALSE)
      [] w.kind = "feature" -> SetFeatured(store, w.id, TRUE)
      [] w.kind = "delete" -> {d \in store : d.id # w.id}

ServerApply(w, allowed) ==
    /\ w \in net
    /\ LET err == WriteError(w, allowed)
       IN  /\ store' = IF err = None THEN Applied(w) ELSE store
           /\ net' = net \ {w}
           /\ resp' = IF w.live
                      THEN resp \cup {[to |-> w.from, call |-> w.call, kind |-> w.kind,
                                       id |-> w.id, err |-> err]}
                      ELSE resp
           /\ hist' = [hist EXCEPT !.clean =
                         [t \in Sessions |-> hist.clean[t]
                                             /\ (store' = store \/ (t = w.from /\ w.live))]]
    /\ UNCHANGED <<cfgvars, feeds, archive, clock, provider, hook, pagevars, sub, op>>

AddedMessage == <<"Photo added successfully!">>

AddFailedMessage(err) ==
    <<"Error adding photo: ", err,
      IF variant = AdminLogin THEN ". Check security rules."
      ELSE ". Check security rules/user authorization.">>

FeaturedMessage ==
    IF variant = AdminLogin THEN <<"Photo featured!">>
    ELSE <<"Photo featured as Photo of the Day!">>

FeatureFailedMessage(err) == <<"Error featuring photo: ", err, ".">>

DeletedMessage == <<"Photo deleted successfully!">>

DeleteFailedMessage(err) == <<"Error deleting photo: ", err, ".">>

\* the handler is done: finally { setLoading(false) }; on a page that is
\* unmounted the setters change nothing
Finish(s, text) ==
    /\ message' = [message EXCEPT ![s] = IF Alive(s) THEN text ELSE @]
    /\ loading' = [loading EXCEPT ![s] = IF Alive(s) THEN FALSE ELSE @]
    /\ op' = [op EXCEPT ![s] = NoOp]

\* the continuation of the await in a handler of session s, on result r
Resume(s, r) ==
    /\ r \in resp
    /\ r.to = s
    /\ op[s].kind # "none"
    /\ CASE r.kind = "add" ->
              /\ Finish(s, IF r.err = None THEN AddedMessage ELSE AddFailedMessage(r.err[1]))
              /\ formData' = [formData EXCEPT ![s] = IF r.err = None /\ Alive(s)
                                                     THEN [url |-> "", caption |-> ""] ELSE @]
              /\ resp' = resp \ {r}
              /\ UNCHANGED net
         [] r.kind = "delete" ->
              /\ Finish(s, IF r.err = None THEN DeletedMessage ELSE DeleteFailedMessage(r.err[1]))
              /\ resp' = resp \ {r}
              /\ UNCHANGED <<net, formData>>
         [] r.kind = "feature" ->
              /\ Finish(s, IF r.err = None THEN FeaturedMessage ELSE FeatureFailedMessage(r.err[1]))
              /\ resp' = resp \ {r}
              /\ UNCHANGED <<net, formData>>
         [] r.kind = "unfeature" ->
              IF r.err # None
              THEN \* Promise.all rejects: the other un-feature writes go on unobserved
                   /\ Finish(s, FeatureFailedMessage(r.err[1]))
                   /\ resp' = {q \in resp : q.to # s}
                   /\ net' = {IF w.from = s THEN [w EXCEPT !.live = FALSE] ELSE w : w \in net}
                   /\ UNCHANGED formData
              ELSE IF op[s].awaiting = {r.id}
              THEN \* Promise.all resolves: the second phase starts
                   /\ op' = [op EXCEPT ![s].awaiting = {}]
                   /\ net' = net \cup {Write(s, r.call, "feature", op[s].target, None)}
                   /\ resp' = resp \ {r}
                   /\ UNCHANGED <<message, loading, formData>>
              ELSE /\ op' = [op EXCEPT ![s].awaiting = @ \ {r.id}]
                   /\ resp' = resp \ {r}
                   /\ UNCHANGED <<net, message, loading, formData>>
    /\ hist' = [hist EXCEPT !.pre[s] = IF op'[s].kind = "none" THEN {} ELSE @,
                            !.clean[s] = IF op'[s].kind = "none" THEN TRUE ELSE @]
    /\ UNCHANGED <<cfgvars, feeds, archive, store, clock, provider, hook, photos, featuredPhoto,
                   authError, loginLoading, sub>>

----------------------------------------------------------------------------
(* The pages of one deployment *)

EnvNone == [apiKey |-> None, authDomain |-> None, projectId |-> None, appId |-> None]
WinNone == [app_id |-> None, firebase_config |-> None, initial_auth_token |-> None]

\* a deployment built with the four environment variables set
EnvSet(projectId) ==
    [apiKey |-> Some(<<"k">>), authDomain |-> Some(<<"d">>),
     projectId |-> Some(projectId), appId |-> None]

\* a hosted preview that injects a config blob, a token and an empty session id
WinPreview ==
    [app_id |-> Some(<<>>), firebase_config |-> Some(BlobFull),
     initial_auth_token |-> Some(<<"t">>)]

\* a hosted preview whose config blob is the JSON text null
WinPreviewNull ==
    [app_id |-> Some(<<"a">>), firebase_config |-> Some(BlobNull),
     initial_auth_token |-> Some(<<"t">>)]

Deployments ==
    {<<EnvSet(<<"a","c","m","e","-","1">>), WinNone>>,
     <<EnvSet(DefaultAppId), WinNone>>,
     <<EnvNone, WinPreview>>,
     <<EnvNone, WinPreviewNull>>,
     <<EnvNone, WinNone>>}

\* the photos an earlier visit left in the collection
Earlier == [kind |-> "anonymous", of |-> "earlier"]

Stored ==
    {Doc(1, "http://x/1.png", "Hi", TRUE, 1, Earlier, getFirebaseConfig.appId),
     Doc(2, "http://x/1.png", "Hi", FALSE, 2, Earlier, getFirebaseConfig.appId)}

Init ==
    /\ variant \in Variants
    /\ \E d \in Deployments : env = d[1] /\ win = d[2]
    /\ resolved = Some(getFirebaseConfig)
    /\ store \in {{}, Stored}
    /\ clock = Cardinality(store)
    /\ archive = NoArchive
    /\ InitPages

\* the session that runs alone
Solo == {"s1"}

Next ==
    \/ \E s \in Solo, ok \in BOOLEAN : InitEffect(s, ok)
    \/ \E s \in Solo, ok \in BOOLEAN : SignInSettled(s, ok)
    \/ \E s \in Solo : AuthStateChanged(s)
    \/ \E s \in Solo : handleLogin(s)
    \/ \E s \in Solo, outcome \in LoginOutcomes : LoginSettled(s, outcome)
    \/ \E s \in Solo : LoginResumed(s)
    \/ \E s \in Solo : handleLogout(s)
    \/ \E s \in Solo, ok \in BOOLEAN : SignOutSettled(s, ok)
    \/ \E s \in Solo : LogoutResumed(s)
    \/ \E s \in Solo : SubscriptionEffect(s)
    \/ \E s \in Solo : Snapshot(s)
    \/ \E s \in Solo : SnapshotError(s)
    \/ \E s \in Solo, c \in OtherCollections : FeedSnapshot(s, c)
    \/ \E s \in Solo, c \in OtherCollections : FeedError(s, c)
    \/ \E s \in Solo : Unmount(s)
    \/ \E s \in Solo, v \in Urls : handleChange(s, "url", v)
    \/ \E s \in Solo, v \in Captions : handleChange(s, "caption", v)
    \/ \E s \in Solo : handleAddPhoto(s)
    \/ \E s \in Solo, id \in 1..MaxPhotos : handleFeaturePhoto(s, id)
    \/ \E s \in Solo, id \in 1..MaxPhotos : handleDeletePhoto(s, id)
    \/ \E w \in net, allowed \in BOOLEAN : ServerApply(w, allowed)
    \/ \E s \in Solo, r \in resp : Resume(s, r)

Spec == Init /\ [][Next]_vars

----------------------------------------------------------------------------
(* Two administrators of one deployment, both signed in, working on the
   archive at the same time *)

InitTeam ==
    /\ variant \in AdminVariants
    /\ env = EnvSet(<<"a","c","m","e","-","1">>)
    /\ win = WinNone
    /\ resolved = Some(getFirebaseConfig)
    /\ store = Stored
    /\ clock = Cardinality(store)
    /\ archive = NoArchive
    /\ InitPages

NextTeam ==
    \/ \E s \in Sessions : InitEffect(s, TRUE)
    \/ \E s \in Sessions : SignInSettled(s, TRUE)
    \/ \E s \in Sessions : AuthStateChanged(s)
    \/ \E s \in Sessions : SubscriptionEffect(s)
    \/ \E s \in Sessions : Snapshot(s)
    \/ \E s \in Sessions : handleAddPhoto(s)
    \/ \E s \in Sessions, id \in 1..MaxPhotos : handleFeaturePhoto(s, id)
    \/ \E s \in Sessions, id \in 1..MaxPhotos : handleDeletePhoto(s, id)
    \/ \E w \in net, allowed \in BOOLEAN : ServerApply(w, allowed)
    \/ \E s \in Sessions, r \in resp : Resume(s, r)

SpecTeam == InitTeam /\ [][NextTeam]_vars

----------------------------------------------------------------------------
(* One administrator on a collection that earlier races left with no
   photo of the day, with one, or with two *)

Leftovers ==
    LET three == Stored \cup {Doc(3, "http://x/1.png", "Hi", FALSE, 3, Earlier,
                                  getFirebaseConfig.appId)}
    IN  {SetFeatured(three, 1, FALSE), three, SetFeatured(three, 2, TRUE)}

InitRepair ==
    /\ variant \in AdminVariants
    /\ env = EnvSet(<<"a","c","m","e","-","1">>)
    /\ win = WinNone
    /\ resolved = Some(getFirebaseConfig)
    /\ store \in Leftovers
    /\ clock = Cardinality(store)
    /\ archive = NoArchive
    /\ InitPages

NextRepair ==
    \/ \E s \in Solo : InitEffect(s, TRUE)
    \/ \E s \in Solo : SignInSettled(s, TRUE)
    \/ \E s \in Solo : AuthStateChanged(s)
    \/ \E s \in Solo : SubscriptionEffect(s)
    \/ \E s \in Solo : Snapshot(s)
    \/ \E s \in Solo, id \in 1..MaxPhotos : handleFeaturePhoto(s, id)
    \/ \E w \in net, allowed \in BOOLEAN : ServerApply(w, allowed)
    \/ \E s \in Solo, r \in resp : Resume(s, r)

SpecRepair == InitRepair /\ [][NextRepair]_vars

----------------------------------------------------------------------------
(* A visitor of the public page while administrators elsewhere change the
   photo of the day *)

\* an updateDoc of another client on isFeatured of photo id, applied
RemoteToggle(id) ==
    /\ \E d \in store : d.id = id /\ store' = SetFeatured(store, id, ~d.isFeatured)
    /\ UNCHANGED <<cfgvars, feeds, archive, clock, net, resp, provider, hook, pagevars, sub,
                   op, hist>>

InitVisit ==
    /\ variant \in HomeVariants
    /\ env = EnvSet(<<"a","c","m","e","-","1">>)
    /\ win = WinNone
    /\ resolved = Some(getFirebaseConfig)
    /\ store = Stored
    /\ clock = Cardinality(store)
    /\ archive = NoArchive
    /\ InitPages

NextVisit ==
    \/ \E s \in Solo, ok \in BOOLEAN : InitEffect(s, ok)
    \/ \E s \in Solo, ok \in BOOLEAN : SignInSettled(s, ok)
    \/ \E s \in Solo : AuthStateChanged(s)
    \/ \E s \in Solo : SubscriptionEffect(s)
    \/ \E s \in Solo : Snapshot(s)
    \/ \E s \in Solo : SnapshotError(s)
    \/ \E id \in DocIds(Stored) : RemoteToggle(id)

SpecVisit == InitVisit /\ [][NextVisit]_vars

----------------------------------------------------------------------------
(* Initialization to the end: an effect that is due runs, a sign-in that
   was started settles, a notification the provider holds is delivered *)

NextStart ==
    \/ \E s \in Solo, ok \in BOOLEAN : InitEffect(s, ok)
    \/ \E s \in Solo, ok \in BOOLEAN : SignInSettled(s, ok)
    \/ \E s \in Solo : AuthStateChanged(s)
    \/ \E s \in Solo : handleLogin(s)
    \/ \E s \in Solo, outcome \in LoginOutcomes : LoginSettled(s, outcome)
    \/ \E s \in Solo : LoginResumed(s)
    \/ \E s \in Solo : handleLogout(s)
    \/ \E s \in Solo, ok \in BOOLEAN : SignOutSettled(s, ok)
    \/ \E s \in Solo : LogoutResumed(s)
    \/ \E s \in Solo : SubscriptionEffect(s)
    \/ \E s \in Solo : Unmount(s)

SpecStart ==
    /\ Init
    /\ [][NextStart]_vars
    /\ WF_vars(\E s \in Solo, ok \in BOOLEAN : InitEffect(s, ok))
    /\ WF_vars(\E s \in Solo, ok \in BOOLEAN : SignInSettled(s, ok))
    /\ WF_vars(\E s \in Solo : AuthStateChanged(s))

----------------------------------------------------------------------------
(* The resolver on its own: every input combination, then one call *)

RECURSIVE StringsUpTo(_)
StringsUpTo(n) ==
    IF n = 0 THEN {<<>>}
    ELSE LET shorter == StringsUpTo(n - 1)
         IN  shorter \cup {Append(s, c) : s \in {t \in shorter : Len(t) = n - 1}, c \in InputChars}

RawIds == StringsUpTo(MaxLen) \cup {DefaultAppId}

OptionalOf(S) == {None} \cup {Some(v) : v \in S}

Envs == [apiKey : OptionalOf({<<>>, <<"k">>}),
         authDomain : OptionalOf({<<"d">>}),
         projectId : OptionalOf(RawIds),
         appId : {None}]

Wins == [app_id : OptionalOf(RawIds),
         firebase_config : OptionalOf(BlobTexts),
         initial_auth_token : OptionalOf({<<"t">>})]

InitConfig ==
    /\ variant \in Variants
    /\ env \in Envs
    /\ win \in Wins
    /\ resolved = None
    /\ store = {}
    /\ clock = 0
    /\ archive = NoArchive
    /\ InitPages

Resolve ==
    /\ resolved = None
    /\ resolved' = Some(getFirebaseConfig)
    /\ UNCHANGED <<variant, env, win, backvars, provider, hook, pagevars, sub, feeds,
                   archive, op, hist>>

NextConfig == Resolve

SpecConfig == InitConfig /\ [][NextConfig]_vars

----------------------------------------------------------------------------
(* groupPhotosByDate on its own: every input list, then one call *)

\* longest photo list grouped
MaxList == 3

\* A Firestore Timestamp is the number of whole months from January 1970 to
\* its instant, negative before 1970; toDate() followed by getFullYear() and by
\* toLocaleString('en-US', { month: 'long' }) are then division and table
\* lookup.  A timestamp field can also be missing, or hold a value that is
\* no Timestamp (a string, a number, a map).
MonthNames == <<"January", "February", "March", "April", "May", "June", "July",
                "August", "September", "October", "November", "December">>

Stamp(months) == [kind |-> "timestamp", months |-> months]
NotAStamp == [kind |-> "other", months |-> 0]

\* Number.prototype.toString of a non-negative integer, as a string of digits
RECURSIVE toString(_)
toString(n) ==
    LET digit == <<"0", "1", "2", "3", "4", "5", "6", "7", "8", "9">>[(n % 10) + 1]
    IN  IF n < 10 THEN <<digit>> ELSE Append(toString(n \div 10), digit)

\* date.getFullYear().toString(); src/unnamed/part_001 uses the number as the
\* key, which the object converts to the same string
YearOf(ts) == toString(1970 + (ts.months \div 12))

\* a month name that ignores the date
AlwaysJanuary(ts) == MonthNames[1]

\* date.toLocaleString('en-US', { month: 'long' })
MonthOf(ts) == MonthNames[(ts.months % 12) + 1]

\* the negation of: !photo.timestamp || typeof photo.timestamp.toDate !==
\* 'function' (photo.timestamp instanceof Timestamp in src/unnamed/part_001)
HasTimestamp(photo) == photo.timestamp # None /\ photo.timestamp[1].kind = "timestamp"

\* one iteration of photos.forEach
GroupOne(grouped, photo) ==
    IF ~HasTimestamp(photo) THEN grouped
    ELSE LET year == YearOf(photo.timestamp[1])
             month == MonthOf(photo.timestamp[1])
             ofYear == IF year \in DOMAIN grouped THEN grouped[year] ELSE <<>>
             bucket == IF month \in DOMAIN ofYear THEN ofYear[month] ELSE <<>>
         IN  [y \in DOMAIN grouped \cup {year} |->
                IF y = year
                THEN [m \in DOMAIN ofYear \cup {month} |->
                        IF m = month THEN Append(bucket, photo) ELSE ofYear[m]]
                ELSE grouped[y]]

RECURSIVE GroupFrom(_, _)
GroupFrom(grouped, list) ==
    IF list = <<>> THEN grouped
    ELSE GroupFrom(GroupOne(grouped, Head(list)), Tail(list))

groupPhotosByDate(list) == GroupFrom(<<>>, list)

\* the month properties of grouped[year] in the order in which
\* grouped[year][month] = [] created them: what Object.keys(grouped[year])
\* returns, the names being no integers
RECURSIVE MonthKeysFrom(_, _, _)
MonthKeysFrom(keys, list, year) ==
    IF list = <<>> THEN keys
    ELSE LET photo == Head(list)
             created == /\ HasTimestamp(photo)
                        /\ YearOf(photo.timestamp[1]) = year
                        /\ MonthOf(photo.timestamp[1]) \notin Range(keys)
         IN  MonthKeysFrom(IF created THEN Append(keys, MonthOf(photo.timestamp[1])) ELSE keys,
                           Tail(list), year)

\* parseInt of a string of digits
RECURSIVE parseInt(_)
parseInt(str) ==
    LET value(c) == CHOOSE n \in 0..9 : toString(n) = <<c>>
    IN  IF Len(str) = 1 THEN value(str[1])
        ELSE 10 * parseInt(SubSeq(str, 1, Len(str) - 1)) + value(str[Len(str)])

\* a.localeCompare(b) on strings of digits: the first differing character
\* decides, a proper prefix comes first
RECURSIVE localeCompare(_, _)
localeCompare(a, b) ==
    CASE a = <<>> /\ b = <<>> -> 0
      [] a = <<>> -> 0 - 1
      [] b = <<>> -> 1
      [] Head(a) # Head(b) -> IF parseInt(<<Head(a)>>) < parseInt(<<Head(b)>>) THEN 0 - 1 ELSE 1
      [] OTHER -> localeCompare(Tail(a), Tail(b))

\* the comparator the render passes to sort, per revision:
\* parseInt(b) - parseInt(a), b - a, b.localeCompare(a)
CompareYears(a, b) ==
    IF variant = HomeFeeds THEN localeCompare(b, a) ELSE parseInt(b) - parseInt(a)

\* Array.prototype.sort of a set of distinct year keys by CompareYears
RECURSIVE SortYears(_)
SortYears(years) ==
    IF years = {} THEN <<>>
    ELSE LET first == CHOOSE y \in years : \A z \in years \ {y} : CompareYears(y, z) < 0
         IN  <<first>> \o SortYears(years \ {first})

\* the archive the page renders: the year headings in sorted order, under
\* each the month headings in key order
ArchiveView(list) ==
    LET years == SortYears(DOMAIN groupPhotosByDate(list))
    IN  [i \in DOMAIN years |->
            [year |-> years[i], months |-> MonthKeysFrom(<<>>, list, years[i])]]

\* January 1970, December 1970, January 1971: two years, two months; and
\* January 999, January 1000: two years whose keys differ in length. The
\* page groups whatever documents the collection holds, and a Timestamp
\* ranges over the years 1 to 9999
StampValues ==
    {None, Some(NotAStamp), Some(Stamp(0)), Some(Stamp(11)), Some(Stamp(12)),
     Some(Stamp((999 - 1970) * 12)), Some(Stamp((1000 - 1970) * 12))}

\* snapshot lists: the i-th document has id i
PhotoLists ==
    UNION {{[i \in 1..n |-> [id |-> i, timestamp |-> f[i]]] : f \in [1..n -> StampValues]}
           : n \in 0..MaxList}

InitGroup ==
    /\ variant \in HomeVariants
    /\ env = EnvNone
    /\ win = WinNone
    /\ resolved = Some(getFirebaseConfig)
    /\ store = {}
    /\ clock = 0
    /\ archive \in [photos : PhotoLists, grouped : {None}, view : {None}]
    /\ InitPages

\* const archivedPhotos = groupPhotosByDate(photos), and the render of it
Group ==
    /\ archive.grouped = None
    /\ archive' = [archive EXCEPT !.grouped = Some(groupPhotosByDate(archive.photos)),
                                  !.view = Some(ArchiveView(archive.photos))]
    /\ UNCHANGED <<cfgvars, backvars, provider, hook, pagevars, sub, feeds, op, hist>>

NextGroup == Group

SpecGroup == InitGroup /\ [][NextGroup]_vars

----------------------------------------------------------------------------
(* Properties *)

AcmeId == <<"a", "c", "m", "e", "-", "1">>

\* C1, as stated: in every reachable state of the photos collection, also
\* while setFeatured operations of one or several sessions are in progress,
\* at most one photo has isFeatured = true
AtMostOneFeatured == Cardinality(FeaturedIds(store)) <= 1

\* C1, amended: at most one photo has isFeatured = true in every reachable
\* state of a run in which no setFeatured call started from a local list that
\* missed a photo featured in the collection, or while the setFeatured of
\* another session was under way; add and delete may interleave freely
AtMostOneFeaturedUnlessRaced == ~hist.raced => Cardinality(FeaturedIds(store)) <= 1

\* a setFeatured that moved the mark from photo 1 to photo 2, without a race
FeaturedMoved ==
    /\ ~hist.raced
    /\ hist.last = "feature"
    /\ FeaturedIds(store) = {2}
    /\ \E s \in Sessions : message[s] = FeaturedMessage /\ op[s].kind = "none"

\* C2: when setFeatured(id) started on a collection with exactly one featured
\* photo and its second phase has been applied with no write of anyone else
\* in between, the collection has exactly one featured photo, and it is id
SetFeaturedLeavesOnlyId ==
    \A s \in Sessions : \A r \in resp :
        ( /\ r.to = s /\ r.kind = "feature" /\ r.err = None
          /\ op[s].kind = "feature"
          /\ Cardinality(hist.pre[s]) = 1
          /\ hist.clean[s] )
        => FeaturedIds(store) = {op[s].target}

\* C4: a handleAddPhoto call by an authorized caller whose url or caption is
\* empty issues no write, creates no record and sets a validation message
EmptyFieldAddRefused ==
    [][\A s \in Sessions :
          ( /\ handleAddPhoto(s)
            /\ hook[s].authReady /\ hook[s].userId # None
            /\ (formData[s].url = "" \/ formData[s].caption = "") )
          => /\ net' = net
             /\ store' = store
             /\ message'[s] = RequiredMessage]_vars

\* C5: an authorized handleAddPhoto with non-empty url and caption sends one
\* addDoc carrying that url and caption, isFeatured = false and the caller as
\* owner, under the resolved namespace; the backend applying it adds exactly
\* that one record; and a snapshot delivered afterwards lists every record of
\* the collection exactly once
AddCreatesOneRecord ==
    [][ /\ \A s \in Sessions :
              ( /\ handleAddPhoto(s)
                /\ hook[s].authReady /\ hook[s].userId # None
                /\ formData[s].url # "" /\ formData[s].caption # "" )
              => \E w \in net' :
                    /\ net' = net \cup {w} /\ w \notin net
                    /\ w.kind = "add" /\ w.from = s
                    /\ w.doc[1].url = formData[s].url
                    /\ w.doc[1].caption = formData[s].caption
                    /\ w.doc[1].isFeatured = FALSE
                    /\ w.doc[1].userId = hook[s].userId[1]
                    /\ w.doc[1].path = AppId
        /\ \A w \in net :
              (w.kind = "add" /\ ServerApply(w, TRUE))
              => /\ w.doc[1].id \notin DocIds(store)
                 /\ store' = store \cup {w.doc[1]}
        /\ \A s \in Sessions :
              (Snapshot(s) /\ variant \in AdminVariants)
              => \A d \in store :
                    Cardinality({i \in DOMAIN photos'[s] : photos'[s][i] = d}) = 1
      ]_vars

\* the scenario of the add: namespace acme-1, url and caption as typed, the
\* record stored once and listed once by the caller's next snapshot
AddedAndListed ==
    \E s \in Sessions : \E d \in store :
        /\ AppId = AcmeId
        /\ d.path = AcmeId
        /\ d.url = "http://x/1.png" /\ d.caption = "Hi" /\ ~d.isFeatured
        /\ hook[s].userId # None /\ d.userId = hook[s].userId[1]
        /\ message[s] = AddedMessage
        /\ Cardinality({e \in store : e.id = d.id}) = 1
        /\ Cardinality({i \in DOMAIN photos[s] : photos[s][i] = d}) = 1

\* C6: for every combination of environment variables and preview globals,
\* in every page, the resolved namespace has only characters of [A-Za-z0-9_-]
NamespaceSafe ==
    resolved # None => \A i \in 1..Len(AppId) : AppId[i] \in SafeChars

\* C7: the resolver's result is a function of its sources: the parsed blob
\* when the preview global is present and the blob parses, else the
\* environment config when it has both API key and project id, else the
\* empty fallback config
ResolverPrefers ==
    resolved # None =>
        LET parsed == JSONparse(win.firebase_config)
        IN  IF win.app_id # None /\ parsed.ok
            THEN /\ Cfg.firebaseConfig = parsed.val
                 /\ Cfg.initialAuthToken = win.initial_auth_token
            ELSE IF Truthy(env.projectId) /\ Truthy(env.apiKey)
            THEN /\ Cfg.firebaseConfig =
                        Config(FALSE, env.apiKey, env.authDomain, env.projectId, env.appId)
                 /\ Cfg.initialAuthToken = None
            ELSE /\ Cfg.firebaseConfig = EmptyConfig
                 /\ Cfg.initialAuthToken = None

\* C8: in the admin page with the login form, isAuthorized holds only for a
\* non-anonymous identity, and no write is in flight from an anonymous session
AnonymousNeverAuthorized ==
    variant = AdminLogin =>
        \A s \in Sessions :
            /\ isAuthorized(s) => ~IsAnonymous(hook[s].userId[1])
            /\ (\E w \in net : w.from = s /\ w.live)
                  => (hook[s].userId # None => ~IsAnonymous(hook[s].userId[1]))

\* C9: a subscription is open only where db is set, authReady is true and the
\* namespace is not the fallback literal
SubscriptionOnlyWhenConfigured ==
    \A s \in Sessions :
        sub[s].status = "active"
        => hook[s].db /\ hook[s].authReady /\ AppId # DefaultAppId

\* C10: while the resolved namespace is "default-app-id", no add, setFeatured
\* or delete write is issued
NoWriteUnderFallback ==
    (resolved # None /\ AppId = DefaultAppId) => net = {}

\* the buckets of a grouping that hold photo p, as <<year, month, index>>
Places(grouped, p) ==
    {<<y, m, i>> \in UNION {UNION {{<<y2, m2, i2>> : i2 \in DOMAIN grouped[y2][m2]}
                                   : m2 \in DOMAIN grouped[y2]} : y2 \in DOMAIN grouped} :
        grouped[y][m][i] = p}

\* C16: groupPhotosByDate puts each photo with a valid timestamp in exactly
\* one bucket, that of its calendar year and month, puts a photo without a
\* valid timestamp in no bucket, maps the empty list to the empty mapping,
\* and its top-level keys are exactly the years of the valid photos
GroupedByYearAndMonth ==
    archive.grouped # None =>
        LET list == archive.photos
            grouped == archive.grouped[1]
            valid == {i \in DOMAIN list :
                        list[i].timestamp # None /\ list[i].timestamp[1].kind = "timestamp"}
        IN  /\ \A i \in valid :
                  LET months == list[i].timestamp[1].months
                  IN  \E n \in 1..Len(list) :
                         Places(grouped, list[i]) =
                            {<<toString(1970 + (months \div 12)), MonthNames[(months % 12) + 1], n>>}
            /\ \A i \in DOMAIN list \ valid : Places(grouped, list[i]) = {}
            /\ list = <<>> => DOMAIN grouped = {}
            /\ DOMAIN grouped = {toString(1970 + (list[i].timestamp[1].months \div 12)) : i \in valid}

\* a list spanning two years, with a photo without timestamp, grouped under
\* exactly two keys
GroupedTwoYears ==
    /\ archive.grouped # None
    /\ Len(archive.photos) = MaxList
    /\ \E i \in DOMAIN archive.photos : archive.photos[i].timestamp = None
    /\ DOMAIN archive.grouped[1] = {<<"1", "9", "7", "0">>, <<"1", "9", "7", "1">>}
    /\ DOMAIN archive.grouped[1][<<"1", "9", "7", "0">>] = {"December"}

\* the five collections of the public page and the state of the listener on
\* each in session s
Collections == {"photos"} \cup OtherCollections

Listener(s) == [c \in Collections |-> IF c = "photos" THEN sub[s].status ELSE sub[s].others[c]]

\* C11: when the listener of one of the five collections fails, the four
\* other listeners stay as they were (an active one stays active and can
\* still deliver a snapshot), and the failing callback changes none of the
\* lists of the page
ErrorLeavesOthers ==
    /\ [](\A s \in Solo : \A c \in OtherCollections :
            (variant = HomeFeeds /\ Alive(s) /\ sub[s].others[c] = "active"
             /\ \E d \in Collections \ {c} : Listener(s)[d] = "errored")
            => ENABLED FeedSnapshot(s, c))
    /\ [][\A s \in Solo :
            (variant = HomeFeeds
             /\ \E c \in Collections : Listener(s)[c] = "active" /\ Listener(s)'[c] = "errored")
            => /\ Cardinality({c \in Collections : Listener(s)'[c] # Listener(s)[c]}) = 1
               /\ feeds' = feeds
               /\ photos' = photos
               /\ featuredPhoto' = featuredPhoto]_vars

\* the listener on videos has failed, the one on music delivered its list
\* and is active, as is the one on photos
VideosFailedMusicListed ==
    \E s \in Solo :
        /\ variant = HomeFeeds
        /\ sub[s].others["videos"] = "errored"
        /\ sub[s].others["music"] = "active"
        /\ sub[s].status = "active"
        /\ feeds[s]["music"] = FeedDocs("music")
        /\ feeds[s]["videos"] = <<>>

\* C12: a failure of the listener on any one of the five collections is
\* reported to the view (the error state the page renders), for videos,
\* music, art and blog as for photos
FailureReportedPerCollection ==
    \A s \in Solo :
        variant = HomeFeeds =>
            \A c \in OtherCollections : sub[s].others[c] = "errored" => hook[s].error # None

\* C13: the five listeners of the public page are created in one step and
\* torn down in one step: a step that makes one active makes all five
\* active, a step that tears one down leaves none active, once the view is
\* unmounted none is active and no callback changes the state of the view
CreatedAndTornDownTogether ==
    /\ [](\A s \in Solo : ~sub[s].mounted => \A c \in Collections : Listener(s)[c] # "active")
    /\ [][\A s \in Solo :
            variant = HomeFeeds =>
              /\ (\E c \in Collections : Listener(s)[c] # "active" /\ Listener(s)'[c] = "active")
                    => \A c \in Collections : Listener(s)'[c] = "active"
              /\ (\E c \in Collections : Listener(s)[c] = "active" /\ Listener(s)'[c] = "none")
                    => \A c \in Collections : Listener(s)'[c] # "active"
              /\ ~sub[s].mounted
                    => /\ photos'[s] = photos[s]
                       /\ featuredPhoto'[s] = featuredPhoto[s]
                       /\ feeds'[s] = feeds[s]
                       /\ loading'[s] = loading[s]
                       /\ hook'[s].error = hook[s].error]_vars

\* the view was unmounted after its listeners had delivered photos and music
UnmountedAfterListening ==
    \E s \in Solo :
        /\ variant = HomeFeeds
        /\ ~sub[s].mounted
        /\ featuredPhoto[s] # None
        /\ feeds[s]["music"] = FeedDocs("music")
        /\ \A c \in Collections : Listener(s)[c] = "none"

\* C14: handleAddPhoto, handleFeaturePhoto and handleDeletePhoto, up to and
\* including the continuations of their awaits, leave the local photo list
\* as it was; the list changes only in the onSnapshot success callback,
\* which replaces it by the documents of the collection, newest first
ListChangesOnlyInSnapshot ==
    [][\A s \in Solo :
          /\ ( \/ handleAddPhoto(s)
               \/ \E id \in 1..(MaxPhotos + 1) : handleFeaturePhoto(s, id) \/ handleDeletePhoto(s, id)
               \/ \E r \in resp : Resume(s, r) )
             => photos'[s] = photos[s]
          /\ photos'[s] # photos[s] => Snapshot(s)
          /\ (Snapshot(s) /\ variant \in AdminVariants) => photos'[s] = OrderDesc(store)]_vars

\* a delete has completed with its success message and the deleted photo is
\* still in the local list, no snapshot having arrived
DeletedYetListed ==
    \E s \in Solo :
        /\ variant \in AdminVariants
        /\ message[s] = DeletedMessage
        /\ op[s] = NoOp
        /\ \E d \in Range(photos[s]) : d.id \notin DocIds(store)

\* C15: a handleFeaturePhoto call that fails leaves the collection as it was
\* before the call (no other party having written meanwhile), also when its
\* second phase fails after its first phase succeeded
FailedFeatureLeavesStore ==
    \A r \in resp :
        ( /\ r.kind = "feature"
          /\ r.err # None
          /\ op[r.to].kind = "feature"
          /\ hist.clean[r.to] )
        => FeaturedIds(store) = hist.pre[r.to]

\* C17: once the initialization effect has run on a configuration without
\* an API key, the hook is ready with no user and no database, and nothing
\* was initialized: no sign-in was started and no auth listener installed
InvalidConfigHalts ==
    \A s \in Solo :
        (hook[s].ran /\ (Cfg.firebaseConfig.isNull \/ ~Truthy(Cfg.firebaseConfig.apiKey)))
        => /\ hook[s].authReady
           /\ hook[s].userId = None
           /\ ~hook[s].db
           /\ ~hook[s].auth
           /\ provider[s].signin = "none"
           /\ ~provider[s].notify

\* C18: handleDeletePhoto(id) is started by an authorized caller only and
\* sends one deleteDoc for id, which removes the record with that id and
\* leaves every other record as it was; no step taken while the caller is not
\* authorized sends a delete of that caller
DeleteRemovesOnlyId ==
    [][/\ \A s \in Solo : \A id \in 1..(MaxPhotos + 1) :
             handleDeletePhoto(s, id)
             => /\ hook[s].authReady /\ hook[s].userId # None
                /\ store' = store
                /\ net' = net \cup {[from |-> s, call |-> hist.calls + 1, kind |-> "delete",
                                      id |-> id, doc |-> None, live |-> TRUE]}
       /\ \A s \in Solo :
             ~(hook[s].authReady /\ hook[s].userId # None)
             => \A w \in net' \ net : ~(w.from = s /\ w.kind = "delete")
       /\ \A w \in net :
             (w.kind = "delete" /\ ServerApply(w, TRUE))
             => /\ store' = {d \in store : d.id # w.id}
                /\ \A d \in store : d.id # w.id => d \in store']_vars

\* a delete of one of the two stored photos has completed: the other one is
\* the whole collection
DeletedOneOfTwo ==
    \E s \in Solo :
        /\ message[s] = DeletedMessage
        /\ op[s] = NoOp
        /\ Cardinality(store) = 1
        /\ store \subseteq Stored

\* C19: when the preview global is absent and the environment lacks the API
\* key or the project id, every page resolves to the empty config, no token
\* and the namespace "default-app-id"
FallbackIsDefaultAppId ==
    (resolved # None /\ win.app_id = None /\ ~(Truthy(env.projectId) /\ Truthy(env.apiKey)))
    => /\ Cfg.firebaseConfig = EmptyConfig
       /\ Cfg.initialAuthToken = None
       /\ AppId = <<"d","e","f","a","u","l","t","-","a","p","p","-","i","d">>

\* C20: every completed handleAddPhoto leaves the form empty (url and
\* caption), whether the addDoc succeeded or failed
AddAlwaysResetsForm ==
    [][\A s \in Solo : \A r \in resp :
          (r.kind = "add" /\ Resume(s, r))
          => formData'[s] = [url |-> "", caption |-> ""]]_vars

\* C21: in a run of one client, whose calls follow one another, a
\* handleFeaturePhoto that completes with success leaves exactly one featured
\* photo, its target, whether or not the snapshot of the client's previous
\* write reached the page before the call (an earlier handleFeaturePhoto is
\* the only call of the client that adds a featured photo to the collection)
SecondFeatureEndsWithTarget ==
    [][\A s \in Solo : \A r \in resp :
          (r.kind = "feature" /\ r.err = None /\ op[s].kind = "feature" /\ Resume(s, r))
          => FeaturedIds(store) = {op[s].target}]_vars

\* C22: a handleFeaturePhoto(id) whose local list showed every featured photo
\* of the collection when it was called, and during which no write but its
\* own changed the collection, ends, when it succeeds, with exactly one
\* featured photo, id, whether the collection held no featured photo, one,
\* or two before the call
FeatureRepairs ==
    [][\A s \in Solo : \A r \in resp :
          ( /\ r.kind = "feature" /\ r.err = None
            /\ op[s].kind = "feature"
            /\ ~hist.raced
            /\ hist.clean[s]
            /\ Resume(s, r) )
          => FeaturedIds(store) = {op[s].target}]_vars

\* the call started from two featured photos, both writes of its first
\* phase and the write of its second phase were applied, and the target is
\* the only featured photo left
RepairedFromTwo ==
    \E s \in Solo : \E r \in resp :
        /\ r.to = s /\ r.kind = "feature" /\ r.err = None
        /\ op[s].kind = "feature"
        /\ ~hist.raced
        /\ hist.clean[s]
        /\ hist.pre[s] = {1, 2}
        /\ FeaturedIds(store) = {op[s].target}

\* C23: a record is changed in place by the feature toggle alone: every
\* step keeps the url, caption, timestamp and owner of each record that
\* stays in the collection; a write of handleFeaturePhoto creates and deletes
\* no record; an addDoc adds one record and leaves the others as they were
OnlyTheToggleUpdates ==
    [][/\ \A d \in store : \A e \in store' :
             e.id = d.id => /\ e.url = d.url
                            /\ e.caption = d.caption
                            /\ e.timestamp = d.timestamp
                            /\ e.userId = d.userId
                            /\ e.path = d.path
       /\ \A w \in net :
             /\ (w.kind \in {"feature", "unfeature"} /\ \E ok \in BOOLEAN : ServerApply(w, ok))
                   => /\ DocIds(store') = DocIds(store)
                      /\ Cardinality(store') = Cardinality(store)
             /\ (w.kind = "add" /\ ServerApply(w, TRUE))
                   => /\ store \subseteq store'
                      /\ Cardinality(store') = Cardinality(store) + 1
                      /\ DocIds(store' \ store) \cap DocIds(store) = {}]_vars

\* photo 2 was made the photo of the day and a third photo was added: the
\* two stored photos differ from what they were in isFeatured alone
ToggledAndAdded ==
    /\ Cardinality(store) = 3
    /\ FeaturedIds(store) = {2}
    /\ \A d \in Stored : \E e \in store :
          e.id = d.id /\ [e EXCEPT !.isFeatured = d.isFeatured] = d

\* C24: each photos snapshot on the public page recomputes the derived view
\* from that snapshot alone: featuredPhoto is the first photo of the
\* snapshot with isFeatured true, or null when there is none, and the list
\* is the snapshot without that one photo, in snapshot order, so that every
\* photo of the snapshot is exposed exactly once
ViewDerivedFromSnapshot ==
    [][\A s \in Solo :
          (variant \in HomeVariants /\ Snapshot(s))
          => LET docs == OrderDesc(store)
                 at == {i \in DOMAIN docs : docs[i].isFeatured}
             IN  IF at = {}
                 THEN featuredPhoto'[s] = None /\ photos'[s] = docs
                 ELSE LET first == CHOOSE i \in at : \A j \in at : i <= j
                      IN  /\ featuredPhoto'[s] = <<docs[first]>>
                          /\ photos'[s] = [j \in 1..(Len(docs) - 1) |->
                                             IF j < first THEN docs[j] ELSE docs[j + 1]]]_vars

\* both photos are featured: the newer one is exposed as the photo of the
\* day and the older one, featured as well, is in the list
NewerOfTwoFeaturedShown ==
    \E s \in Solo :
        /\ variant \in HomeVariants
        /\ FeaturedIds(store) = {1, 2}
        /\ featuredPhoto[s] # None /\ featuredPhoto[s][1].id = 2
        /\ Len(photos[s]) = 1 /\ photos[s][1].id = 1 /\ photos[s][1].isFeatured

\* C25: when the preview global is present and its config blob is no JSON
\* (cut short, empty, or undefined), the resolver returns a result, not an
\* error: the environment config with no token when the API key and the
\* project id are both set, and the fallback of the page otherwise
MalformedBlobFallsThrough ==
    ( /\ resolved # None
      /\ win.app_id # None
      /\ win.firebase_config \in {None, <<BlobCut>>, <<BlobEmpty>>} )
    => /\ ~Cfg.isCanvasEnv
       /\ Cfg.initialAuthToken = None
       /\ IF Truthy(env.projectId) /\ Truthy(env.apiKey)
          THEN Cfg.firebaseConfig =
                  Config(FALSE, env.apiKey, env.authDomain, env.projectId, env.appId)
          ELSE /\ Cfg.firebaseConfig = EmptyConfig
               /\ AppId = IF variant = HomeFeeds THEN HardcodedProjectId ELSE DefaultAppId

\* a blob cut short was skipped and the environment config returned, the
\* token of the preview dropped
CutBlobSkipped ==
    /\ resolved # None
    /\ win.app_id # None
    /\ win.firebase_config = <<BlobCut>>
    /\ win.initial_auth_token # None
    /\ Cfg.firebaseConfig.apiKey = <<<<"k">>>>
    /\ Cfg.initialAuthToken = None

\* C27: the authorization test reads the current user: from the moment the
\* auth listener has delivered a sign-out until the next sign-in the page
\* has no user, so that isAuthorized is false; no handleAddPhoto,
\* handleFeaturePhoto or handleDeletePhoto starts in that time, and the only
\* write the page sends is the second phase of a handleFeaturePhoto that was
\* started before the sign-out
NoWriteAfterSignOut ==
    /\ [](\A s \in Solo : hist.signedOut[s] => hook[s].userId = None)
    /\ [][\A s \in Solo :
            hist.signedOut[s]
            => /\ ~(handleAddPhoto(s)
                    \/ \E id \in 1..(MaxPhotos + 1) :
                          handleFeaturePhoto(s, id) \/ handleDeletePhoto(s, id))
               /\ \A w \in net' \ net :
                     w.from = s => /\ op[s].kind = "feature"
                                   /\ w.kind = "feature" /\ w.id = op[s].target]_vars

\* a sign-out was delivered to a page that had loaded the list, has no
\* handler under way and has calls left: the page has no user, the logout
\* has reported, and nothing was sent
SignedOutWithListShown ==
    \E s \in Solo :
        /\ hist.signedOut[s]
        /\ hist.last = "logout"
        /\ hist.calls < MaxCalls
        /\ Alive(s) /\ ~loading[s]
        /\ Len(photos[s]) = 2
        /\ hook[s].userId = None
        /\ message[s] = <<"Logged out.">>
        /\ net = {}
        /\ store = Stored

\* the position in list of the first photo filed under (year, month)
FirstOf(list, year, month) ==
    CHOOSE i \in DOMAIN list :
        /\ Places(groupPhotosByDate(list), list[i]) # {}
        /\ \E n \in DOMAIN list : <<year, month, n>> \in Places(groupPhotosByDate(list), list[i])
        /\ \A j \in 1..(i - 1) :
              \A n \in DOMAIN list : <<year, month, n>> \notin Places(groupPhotosByDate(list), list[j])

\* C28: the archive view lists each year of the grouping once, in descending
\* numeric order, and under a year each of its months once, a month whose
\* first photo comes earlier in the input list before a month whose first
\* photo comes later
ArchiveOrdered ==
    archive.view # None =>
        LET list == archive.photos
            grouped == archive.grouped[1]
            view == archive.view[1]
        IN  /\ {view[i].year : i \in DOMAIN view} = DOMAIN grouped
            /\ \A i, j \in DOMAIN view :
                  i < j => parseInt(view[i].year) > parseInt(view[j].year)
            /\ \A i \in DOMAIN view :
                  LET months == view[i].months
                  IN  /\ Range(months) = DOMAIN grouped[view[i].year]
                      /\ \A a, b \in DOMAIN months :
                            a < b => FirstOf(list, view[i].year, months[a])
                                       < FirstOf(list, view[i].year, months[b])

\* C29: within one handleFeaturePhoto call the write that features the target
\* is sent only when every un-feature write of the call has completed; and
\* while a call is under way that started from at most one featured photo,
\* with a local list that showed it, and no other write changes the
\* collection, the collection never holds two featured photos
FeatureAfterUnfeature ==
    \A s \in Solo :
        /\ \A w \in net :
              (w.from = s /\ w.live /\ w.kind = "feature")
              => /\ op[s].awaiting = {}
                 /\ ~\E u \in net : u.from = s /\ u.live /\ u.kind = "unfeature"
        /\ ( /\ op[s].kind = "feature"
             /\ ~hist.raced
             /\ hist.clean[s]
             /\ Cardinality(hist.pre[s]) <= 1 )
           => Cardinality(FeaturedIds(store)) <= 1

\* between the two phases: the call started from photo 1 featured, its
\* un-feature write was applied and its feature write is on the way, the
\* collection holding no featured photo
BetweenThePhases ==
    \E s \in Solo :
        /\ op[s].kind = "feature"
        /\ hist.pre[s] = {1}
        /\ ~hist.raced /\ hist.clean[s]
        /\ FeaturedIds(store) = {}
        /\ \E w \in net : w.from = s /\ w.live /\ w.kind = "feature" /\ w.id = 2

\* C30: in every initialization of a page that stays mounted authReady
\* becomes true, and once true it is true in every later state, whatever
\* sign-in and sign-out follow
AuthReadyForGood ==
    \A s \in Solo :
        /\ <>(hook[s].authReady \/ ~sub[s].mounted)
        /\ [](hook[s].authReady => [](hook[s].authReady))

====
